---- MODULE Spec2Model ----
(***************************************************************************)
(* weather-loop: the edge tile proxy (Cloudflare Worker), the client's     *)
(* timestamp resolvers, the map's tile prefetch and the GOES frame loader, *)
(* as state machines.                                                      *)
(*                                                                         *)
(*   Spec        the edge proxy: request handlers that interleave at their *)
(*               await points, the shared cache, the un-awaited cache.put  *)
(*   SpecRoute   the edge proxy, one handler at a time, over every request *)
(*               shape (method, path, Origin) and allow-list configuration *)
(*   SpecResolve the client's timestamp resolvers (formatGibsTimestamp and *)
(*               the KBOX tile effect) called under an advancing clock     *)
(*   SpecPrefetch the RainViewer preload effect of MapView and the job it  *)
(*               starts (preloadTileUrls)                                  *)
(*   SpecLayers  the RainViewer and GOES-East preload effects together     *)
(*   SpecLoop    useWeatherLoop: loadFrames invocations and the controls   *)
(*   SpecScrub   MapView's timeline: refreshes, the slider, autoplay and   *)
(*               the RainViewer layer they drive                           *)
(*   SpecPlayback the App with one view mounted at a time: the playback of *)
(*               MapView and of useWeatherLoop                             *)
(*   SpecCache   useWeatherLoop's loads over the persistent image store,   *)
(*               with the hourly expiry, under an advancing clock          *)
(***************************************************************************)
EXTENDS Integers, Sequences, FiniteSets, TLC

VARIABLES
  env,          \* Env.ALLOWED_ORIGINS of the deployment
  cache,        \* caches.default: upstream URL -> stored response
  pendingPuts,  \* cache.put calls issued and not yet completed
  inflight,     \* per handler invocation: where it is suspended
  last,         \* the response most recently returned to a caller
  served,       \* number of requests received so far
  okFetched,    \* history: keys for which an upstream fetch returned 2xx
  errSinceOk,   \* history: keys answered non-2xx since their last 2xx fetch
  freshMiss,    \* history: key -> body of the MISS answer not yet expired
  now,          \* Date.now() of the client, in milliseconds
  prevCall,     \* the resolver call before the latest one
  curCall,      \* the latest resolver call
  mapLoaded,    \* MapView: the map's load event has fired
  viewport,     \* MapView: map.getBounds() and map.getZoom()
  radarFrames,  \* MapView: the timeline, oldest frame first
  showRadar,    \* MapView: the RainViewer layer is on
  showGoesGeocolor, \* MapView: the GOES-East layer is on
  hasPreloadedRef,  \* MapView: hasPreloadedRef.current
  isPreloading, \* MapView: the "Loading frames..." flag
  preloadProgress,  \* MapView: the percentage shown with the flag
  jobs,         \* preloadTileUrls invocations, in order of their start
  dispatched,   \* tile requests handed to the network, in dispatch order
  sector,       \* useWeatherLoop: the selected sector
  imageType,    \* useWeatherLoop: the selected image type
  frames,       \* useWeatherLoop: object URLs of the frames shown
  currentFrame, \* useWeatherLoop: index of the frame shown
  isLoading,    \* useWeatherLoop: a load is believed to be running
  loadingProgress, \* useWeatherLoop: percentage, in thousandths
  error,        \* useWeatherLoop: the error shown, or null
  loads,        \* loadFrames invocations, in order of their start
  view,         \* App: the view that is mounted ('map' or 'flat')
  mapIsPlaying, \* MapView: isPlaying
  currentFrameIndex, \* MapView: index of the timeline frame shown
  interval,     \* MapView: the setInterval of the animation effect, or null
  ticked,       \* history: flips at every call of the interval's callback
  radarLayer,   \* the map's 'radar-layer': absent, or its visibility
  tileUpdates,  \* history: the last two tile sets the slider has caused
  scrubbedTo,   \* history: where the slider and autoplay have left the index
  isPlaying,    \* useWeatherLoop: isPlaying
  animationRef, \* useWeatherLoop: the requested animation frame, or null
  lastFrameTimeRef, \* useWeatherLoop: lastFrameTimeRef.current
  rafTime,      \* time of the latest animation frame callback, from mount
  imageStore    \* the local image cache: entries of URL and insertion time

proxyVars == <<env, cache, pendingPuts, inflight, last, served, okFetched,
               errSinceOk, freshMiss>>
resolveVars == <<now, prevCall, curCall>>
mapVars == <<mapLoaded, viewport, radarFrames, showRadar, showGoesGeocolor,
             hasPreloadedRef, isPreloading, preloadProgress, jobs, dispatched>>
loopVars == <<sector, imageType, frames, currentFrame, isLoading,
              loadingProgress, error, loads, imageStore>>
playVars == <<mapIsPlaying, currentFrameIndex, interval, ticked, radarLayer,
              tileUpdates, scrubbedTo>>
animVars == <<isPlaying, animationRef, lastFrameTimeRef, rafTime>>
clientVars == <<mapVars, loopVars, view, playVars, animVars>>
vars == <<env, cache, pendingPuts, inflight, last, served, okFetched,
          errSinceOk, freshMiss, now, prevCall, curCall, mapLoaded, viewport,
          radarFrames, showRadar, showGoesGeocolor, hasPreloadedRef,
          isPreloading, preloadProgress, jobs, dispatched, sector, imageType,
          frames, currentFrame, isLoading, loadingProgress, error, loads,
          view, mapIsPlaying, currentFrameIndex, interval, ticked, radarLayer,
          tileUpdates, scrubbedTo, isPlaying, animationRef, lastFrameTimeRef,
          rafTime, imageStore>>

(***************************************************************************)
(* Bounds                                                                  *)
(***************************************************************************)
MaxInFlight == 2
MaxRequests == 3
MaxRouteRequests == 2
MaxNowSteps == 8      \* clock readings of the client
MaxTimeSteps == 8     \* frame instants offered to the resolvers

(***************************************************************************)
(* JavaScript values and string helpers                                    *)
(***************************************************************************)
Undefined == "<undefined>"
Absent == "<absent>"
NoCall == [fn |-> "none"]

CharAt(s, i) == SubSeq(s, i, i)

startsWith(s, p) == Len(p) <= Len(s) /\ SubSeq(s, 1, Len(p)) = p

RECURSIVE IndexFrom(_, _, _)
\* smallest j >= i with s[j] = c, or Len(s) + 1 when there is none
IndexFrom(s, c, i) ==
  IF i > Len(s) THEN Len(s) + 1
  ELSE IF CharAt(s, i) = c THEN i
  ELSE IndexFrom(s, c, i + 1)

RECURSIVE split(_, _)
\* String.prototype.split(sep) for a one-character separator
split(s, sep) ==
  LET j == IndexFrom(s, sep, 1)
  IN IF j > Len(s) THEN <<s>>
     ELSE <<SubSeq(s, 1, j - 1)>> \o split(SubSeq(s, j + 1, Len(s)), sep)

RECURSIVE trimStart(_)
trimStart(s) ==
  IF Len(s) > 0 /\ CharAt(s, 1) = " " THEN trimStart(SubSeq(s, 2, Len(s))) ELSE s

RECURSIVE trimEnd(_)
trimEnd(s) ==
  IF Len(s) > 0 /\ CharAt(s, Len(s)) = " " THEN trimEnd(SubSeq(s, 1, Len(s) - 1)) ELSE s

trim(s) == trimEnd(trimStart(s))

RECURSIVE join(_, _)
\* Array.prototype.join
join(xs, sep) ==
  IF Len(xs) = 0 THEN ""
  ELSE IF Len(xs) = 1 THEN xs[1]
  ELSE xs[1] \o sep \o join(Tail(xs), sep)

(***************************************************************************)
(* The worker's tables                                                     *)
(***************************************************************************)
ProviderIds == <<"rainviewer", "iem", "gibs">>

UPSTREAMS ==
  [rainviewer |-> "https://tilecache.rainviewer.com",
   iem |-> "https://mesonet.agron.iastate.edu",
   gibs |-> "https://gibs.earthdata.nasa.gov"]

CACHE_TTLS == [rainviewer |-> 300, iem |-> 300, gibs |-> 600]

\* UPSTREAMS is an object literal: a property read walks the prototype chain,
\* so these keys read as inherited (truthy) members of Object.prototype.
ObjectPrototypeKeys ==
  {"constructor", "toString", "valueOf", "hasOwnProperty", "isPrototypeOf",
   "propertyIsEnumerable", "toLocaleString", "__proto__"}

InheritedMember == "function Object() { [native code] }"

\* UPSTREAMS[provider]
UpstreamOf(provider) ==
  IF provider \in DOMAIN UPSTREAMS THEN UPSTREAMS[provider]
  ELSE IF provider \in ObjectPrototypeKeys THEN InheritedMember
  ELSE Undefined

Truthy(v) == v # Undefined /\ v # ""

\* CACHE_TTLS[provider] || 300
TtlOf(provider) ==
  IF provider \in DOMAIN CACHE_TTLS /\ CACHE_TTLS[provider] # 0
  THEN CACHE_TTLS[provider]
  ELSE 300

\* path.match(/^\/([^\/]+)(\/.*)?$/): <<match[1], match[2]>>, or <<>> for null
PathMatch(path) ==
  LET j == IndexFrom(path, "/", 2)
  IN IF Len(path) = 0 \/ CharAt(path, 1) # "/" \/ j = 2 THEN <<>>
     ELSE <<SubSeq(path, 2, j - 1),
            IF j > Len(path) THEN Undefined ELSE SubSeq(path, j, Len(path))>>

\* new Request(url, ...) throws a TypeError unless url is an absolute URL
IsAbsoluteUrl(u) == startsWith(u, "https://") \/ startsWith(u, "http://")

(***************************************************************************)
(* Responses and CORS                                                      *)
(***************************************************************************)
\* new Response(body, {status}) with no headers set
Response(status, body) ==
  [status |-> status, body |-> body, xcache |-> Absent,
   cacheControl |-> Absent, acao |-> Absent]

\* a bug that would treat every answered fetch as a success
ResponseOkLax(status) == status >= 200

\* response.ok
ResponseOk(status) == status >= 200 /\ status <= 299

handleCors(request, e, response) ==
  LET origin == request.origin   \* request.headers.get("Origin") || ""
      allowedOrigins == IF e = Undefined THEN <<>> ELSE split(e, ",")
      isAllowed ==
        \/ origin = ""
        \/ \E i \in 1..Len(allowedOrigins) :
             startsWith(origin, trim(allowedOrigins[i]))
  IN \* headers start as a copy of response.headers
     IF isAllowed /\ origin # "" THEN [response EXCEPT !.acao = origin]
     ELSE IF origin = "" THEN [response EXCEPT !.acao = "*"]
     ELSE response

HealthBody == "{status:ok,upstreams:[" \o join(ProviderIds, ",") \o "]}"

UnknownProviderBody(provider) ==
  "Unknown provider: " \o provider \o ". Valid: " \o join(ProviderIds, ", ")

\* The runtime's answer to an exception that escapes the handler
WorkerException == Response(500, "<uncaught exception>")

(***************************************************************************)
(* Inputs                                                                  *)
(***************************************************************************)
Methods == {"GET", "OPTIONS"}
Paths == {"/", "/health", "/rainviewer/a", "/iem/a", "/gibs/a", "/gibs",
          "/nope/a", "/constructor/a", "//a"}
Origins == {"", "https://a.io", "https://a.io.evil.com", "https://c.io"}
Envs == {Undefined, "https://a.io, https://b.io"}
UpstreamStatuses == {200, 404, 503}
UpstreamBodies == {"tile-v1", "tile-v2"}
UpstreamAcao == {Absent, "*"}

\* every request shape: routing and CORS (SpecRoute)
Requests == [method : Methods, path : Paths, search : {""}, origin : Origins]

\* tile requests of one non-browser caller: caching under concurrency (Spec)
TileRequests ==
  [method : {"GET"}, path : {"/rainviewer/a", "/gibs/a"}, search : {""},
   origin : {""}]

(***************************************************************************)
(* The edge proxy                                                          *)
(***************************************************************************)
Idle == [pc |-> "idle"]
NoResponse == [kind |-> "none"]

Put(f, k, v) == [x \in DOMAIN f \cup {k} |-> IF x = k THEN v ELSE f[x]]
Drop(f, k) == [x \in DOMAIN f \ {k} |-> f[x]]

\* What the caller of `req` receives, with what the handler did on the way
Answer(req, resp, key, up, expectHit, hitAfterErr, did) ==
  [kind |-> "response", req |-> req, resp |-> resp, key |-> key, up |-> up,
   expectHit |-> expectHit, hitAfterErr |-> hitAfterErr, did |-> did]

NoUpstream == [status |-> 0, body |-> Absent]
DidNothing == [match |-> FALSE, fetch |-> FALSE, put |-> FALSE, cors |-> TRUE]

\* fetch(): the synchronous part, up to the await of cache.match
Receive(r, req) ==
  /\ served < MaxRequests
  /\ inflight[r] = Idle
  /\ served' = served + 1
  /\ LET m == PathMatch(req.path)
         provider == m[1]
         upstreamPath == IF m[2] = Undefined THEN "" ELSE m[2]
         upstreamUrl == UpstreamOf(provider) \o upstreamPath \o req.search
         Direct(resp) ==
           /\ last' = Answer(req, handleCors(req, env, resp), Absent,
                             NoUpstream, Absent, FALSE, DidNothing)
           /\ UNCHANGED inflight
     IN IF req.method = "OPTIONS" THEN Direct(Response(204, ""))
        ELSE IF req.path = "/" \/ req.path = "/health"
          THEN Direct(Response(200, HealthBody))
        ELSE IF m = <<>> THEN Direct(Response(400, "Invalid path"))
        ELSE IF ~Truthy(UpstreamOf(provider))
          THEN Direct(Response(400, UnknownProviderBody(provider)))
        ELSE IF ~IsAbsoluteUrl(upstreamUrl)
          THEN \* new Request(upstreamUrl, request) throws outside the try block
               /\ last' = Answer(req, WorkerException, Absent, NoUpstream, Absent,
                                 FALSE, [DidNothing EXCEPT !.cors = FALSE])
               /\ UNCHANGED inflight
        ELSE /\ inflight' = [inflight EXCEPT ![r] =
                  [pc |-> "match", req |-> req, provider |-> provider,
                   key |-> upstreamUrl,
                   expectHit |-> IF upstreamUrl \in DOMAIN freshMiss
                                 THEN freshMiss[upstreamUrl] ELSE Absent]]
             /\ UNCHANGED last
  /\ UNCHANGED <<env, cache, pendingPuts, okFetched, errSinceOk, freshMiss>>
  /\ UNCHANGED <<resolveVars, clientVars>>

\* await cache.match(cacheKey) resolves
CacheMatch(r) ==
  /\ inflight[r].pc = "match"
  /\ LET h == inflight[r]
         stillFresh == IF h.key \in DOMAIN freshMiss /\ freshMiss[h.key] = h.expectHit
                       THEN h.expectHit ELSE Absent
     IN IF h.key \in DOMAIN cache
        THEN /\ last' = Answer(h.req,
                          handleCors(h.req, env, [cache[h.key] EXCEPT !.xcache = "HIT"]),
                          h.key, NoUpstream, stillFresh, h.key \in errSinceOk,
                          [DidNothing EXCEPT !.match = TRUE])
             /\ inflight' = [inflight EXCEPT ![r] = Idle]
        ELSE /\ inflight' = [inflight EXCEPT ![r] =
                              [h EXCEPT !.pc = "fetch", !.expectHit = stillFresh]]
             /\ UNCHANGED last
  /\ UNCHANGED <<env, cache, pendingPuts, served, okFetched, errSinceOk, freshMiss>>
  /\ UNCHANGED <<resolveVars, clientVars>>

\* await fetch(upstreamUrl) resolves with a response
UpstreamRespond(r, status, body, acao) ==
  /\ inflight[r].pc = "fetch"
  /\ LET h == inflight[r]
         up == [status |-> status, body |-> body]
         did == [DidNothing EXCEPT !.match = TRUE, !.fetch = TRUE]
     IN IF ~ResponseOk(status)
        THEN /\ last' = Answer(h.req,
                          handleCors(h.req, env,
                            Response(status, "Upstream error: " \o ToString(status))),
                          h.key, up, Absent, FALSE, did)
             /\ errSinceOk' = errSinceOk \cup {h.key}
             /\ UNCHANGED <<pendingPuts, okFetched, freshMiss>>
        ELSE LET ttl == TtlOf(h.provider)
                 response == [status |-> status, body |-> body, xcache |-> "MISS",
                              cacheControl |-> "public, max-age=" \o ToString(ttl),
                              acao |-> acao]
             IN /\ pendingPuts' = pendingPuts \cup {<<h.key, response>>}
                /\ last' = Answer(h.req, handleCors(h.req, env, response), h.key, up,
                                  Absent, FALSE, [did EXCEPT !.put = TRUE])
                /\ okFetched' = IF status \in 200..299 THEN okFetched \cup {h.key}
                                ELSE okFetched
                /\ errSinceOk' = IF status \in 200..299 THEN errSinceOk \ {h.key}
                                 ELSE errSinceOk \cup {h.key}
                /\ freshMiss' = Put(freshMiss, h.key, body)
  /\ inflight' = [inflight EXCEPT ![r] = Idle]
  /\ UNCHANGED <<env, cache, served>>
  /\ UNCHANGED <<resolveVars, clientVars>>

\* await fetch(upstreamUrl) rejects
UpstreamFail(r) ==
  /\ inflight[r].pc = "fetch"
  /\ LET h == inflight[r]
     IN /\ last' = Answer(h.req,
                     handleCors(h.req, env, Response(502, "Fetch error: TypeError")),
                     h.key, NoUpstream, Absent, FALSE,
                     [DidNothing EXCEPT !.match = TRUE, !.fetch = TRUE])
        /\ errSinceOk' = errSinceOk \cup {h.key}
  /\ inflight' = [inflight EXCEPT ![r] = Idle]
  /\ UNCHANGED <<env, cache, pendingPuts, served, okFetched, freshMiss>>
  /\ UNCHANGED <<resolveVars, clientVars>>

\* the promise of cache.put(cacheKey, modifiedResponse), which nobody awaits, settles
CachePutComplete(p) ==
  /\ p \in pendingPuts
  /\ cache' = Put(cache, p[1], p[2])
  /\ pendingPuts' = pendingPuts \ {p}
  /\ UNCHANGED <<env, inflight, last, served, okFetched, errSinceOk, freshMiss>>
  /\ UNCHANGED <<resolveVars, clientVars>>

\* the lifetime (max-age) of the entry for key k is over
CacheExpire(k) ==
  /\ k \in DOMAIN cache \cup DOMAIN freshMiss
  /\ cache' = Drop(cache, k)
  /\ freshMiss' = Drop(freshMiss, k)
  /\ UNCHANGED <<env, pendingPuts, inflight, last, served, okFetched, errSinceOk>>
  /\ UNCHANGED <<resolveVars, clientVars>>

ProxyInit(envs) ==
  /\ env \in envs
  /\ cache = <<>>
  /\ pendingPuts = {}
  /\ inflight = [r \in 1..MaxInFlight |-> Idle]
  /\ last = NoResponse
  /\ served = 0
  /\ okFetched = {}
  /\ errSinceOk = {}
  /\ freshMiss = <<>>

ResolveIdle ==
  /\ now = 0
  /\ prevCall = NoCall
  /\ curCall = NoCall

\* new maplibregl.Map({center: [-71.0589, 42.3601], zoom: 5}): the bounds in
\* whole degrees, the zoom in tenths
InitialView ==
  [west |-> -93, east |-> -49, north |-> 55, south |-> 27, zoom10 |-> 50]

\* MapView's state after its first render (the useState / useRef initials),
\* with the map showing the given view
MapAt(shown) ==
  /\ mapLoaded = FALSE
  /\ viewport = shown
  /\ radarFrames = <<>>
  /\ showRadar = FALSE
  /\ showGoesGeocolor = FALSE
  /\ hasPreloadedRef = FALSE
  /\ isPreloading = FALSE
  /\ preloadProgress = 0
  /\ jobs = <<>>
  /\ dispatched = <<>>
  /\ mapIsPlaying = FALSE
  /\ currentFrameIndex = 0
  /\ interval = <<>>
  /\ ticked = FALSE
  /\ radarLayer = "absent"
  /\ tileUpdates = <<>>
  /\ scrubbedTo = <<>>

MapMounted == MapAt(InitialView)

\* useWeatherLoop('northeast', 'GEOCOLOR') at its first render, before the
\* initial-load effect has run
LoopRendered ==
  /\ sector = "northeast"
  /\ imageType = "GEOCOLOR"
  /\ frames = <<>>
  /\ currentFrame = 0
  /\ isLoading = TRUE
  /\ loadingProgress = 0
  /\ error = "<null>"
  /\ loads = <<>>
  /\ isPlaying = FALSE
  /\ animationRef = <<>>
  /\ lastFrameTimeRef = 0
  /\ rafTime = 0
  /\ imageStore = {}

ClientIdle == view = "map" /\ MapMounted /\ LoopRendered

\* The cache and upstream steps, common to both proxy specifications
ProxyStep(slots, acaos) ==
  \/ \E r \in slots : CacheMatch(r)
  \/ \E r \in slots, s \in UpstreamStatuses, b \in UpstreamBodies, a \in acaos :
        UpstreamRespond(r, s, b, a)
  \/ \E r \in slots : UpstreamFail(r)
  \/ \E p \in pendingPuts : CachePutComplete(p)
  \/ \E k \in DOMAIN cache \cup DOMAIN freshMiss : CacheExpire(k)

Init == ProxyInit({"https://a.io, https://b.io"}) /\ ResolveIdle /\ ClientIdle

Next ==
  \/ \E r \in 1..MaxInFlight, req \in TileRequests : Receive(r, req)
  \/ ProxyStep(1..MaxInFlight, {"*"})

Spec == Init /\ [][Next]_vars

\* One handler at a time, every request shape, every configuration
InitRoute == ProxyInit(Envs) /\ ResolveIdle /\ ClientIdle

NextRoute ==
  \/ \E req \in Requests : served < MaxRouteRequests /\ Receive(1, req)
  \/ ProxyStep({1}, UpstreamAcao)

SpecRoute == InitRoute /\ [][NextRoute]_vars

(***************************************************************************)
(* Edge proxy: properties                                                  *)
(***************************************************************************)
Is2xx(status) == status \in 200..299
Answered == last.kind = "response"
AnsweredHit == Answered /\ last.resp.xcache = "HIT"
RegisteredIds == {ProviderIds[i] : i \in 1..Len(ProviderIds)}
Contains(s, t) == \E i \in 1..(Len(s) - Len(t) + 1) : SubSeq(s, i, i + Len(t) - 1) = t

\* C1 (as stated): the cache holds an entry for U only if an upstream fetch of U
\* returned 2xx, and a non-2xx answer for U is never followed by a HIT for U
\* unless a successful fetch of U happened in between.
C1_NoHitAfterError ==
  /\ \A k \in DOMAIN cache : k \in okFetched
  /\ AnsweredHit => ~last.hitAfterErr

\* C1 (amended): every stored or to-be-stored entry for U is a 2xx response of an
\* earlier successful upstream fetch of U, a cache write is only ever issued for
\* a 2xx upstream response, and every HIT for U comes after a successful fetch
\* of U (which may precede the latest non-2xx answer for U).
C1_CacheOnlySuccess ==
  /\ \A k \in DOMAIN cache : k \in okFetched /\ Is2xx(cache[k].status)
  /\ \A p \in pendingPuts : p[1] \in okFetched /\ Is2xx(p[2].status)
  /\ Answered /\ last.did.put => Is2xx(last.up.status)
  /\ AnsweredHit => last.key \in okFetched /\ Is2xx(last.resp.status)

\* a HIT for a key answered right after a non-2xx answer for the same key
C1_Witness == AnsweredHit /\ last.hitAfterErr

\* C2: a request for U that arrives after a MISS answer for U, within the
\* entry's lifetime, is answered HIT with the body of that answer, without any
\* upstream fetch.
C2_HitAfterMiss ==
  /\ \A r \in DOMAIN inflight :
       inflight[r].pc = "fetch" => inflight[r].expectHit = Absent
  /\ AnsweredHit /\ last.expectHit # Absent => last.resp.body = last.expectHit

\* C3: a non-2xx upstream answer (status S, body B) reaches the caller with
\* status S and body B.
C3_PassThrough ==
  Answered /\ last.did.fetch /\ last.up # NoUpstream /\ ~Is2xx(last.up.status)
    => last.resp.status = last.up.status /\ last.resp.body = last.up.body

\* C4: a GET whose first path segment is not a registered provider id is
\* answered 4xx with a body listing the valid ids, without upstream fetch or
\* cache access (the /health route and the OPTIONS preflight aside).
C4_UnknownProvider ==
  Answered /\ last.req.method = "GET" /\ last.req.path # "/health"
           /\ PathMatch(last.req.path) # <<>>
           /\ PathMatch(last.req.path)[1] \notin RegisteredIds
    => /\ last.resp.status \in 400..499
       /\ \A id \in RegisteredIds : Contains(last.resp.body, id)
       /\ ~last.did.match /\ ~last.did.fetch /\ ~last.did.put

\* the entries of the comma-separated allow-list
AllowList(e) ==
  IF e = Undefined THEN {}
  ELSE {trim(split(e, ",")[i]) : i \in 1..Len(split(e, ","))}

\* C5: for a request with an Origin, Access-Control-Allow-Origin is that Origin
\* iff it is an entry of the allow-list and is absent otherwise; the wildcard
\* goes only to requests without an Origin.
C5_CorsAllowList ==
  Answered /\ last.did.cors
    => /\ last.req.origin # "" =>
            IF last.req.origin \in AllowList(env)
            THEN last.resp.acao = last.req.origin
            ELSE last.resp.acao = Absent
       /\ last.resp.acao = "*" => last.req.origin = ""

\* the lifetimes of docs/cloudflare-worker.md, in minutes
DocumentedTtlMinutes == [rainviewer |-> 15, iem |-> 5, gibs |-> 10]

\* C6: a successful upstream response for provider p is returned and stored with
\* Cache-Control: public, max-age = p's documented lifetime.
C6_DocumentedLifetime ==
  /\ Answered /\ last.did.put =>
       LET p == PathMatch(last.req.path)[1]
       IN last.resp.cacheControl
            = "public, max-age=" \o ToString(DocumentedTtlMinutes[p] * 60)
  /\ \A e \in pendingPuts, p \in RegisteredIds :
       startsWith(e[1], UPSTREAMS[p]) =>
         e[2].cacheControl = "public, max-age=" \o ToString(DocumentedTtlMinutes[p] * 60)

(***************************************************************************)
(* Client: dates                                                           *)
(***************************************************************************)
Null == "<null>"

Pad(n, width) ==
  LET d == ToString(n)
  IN IF Len(d) >= width THEN d
     ELSE SubSeq("0000", 1, width - Len(d)) \o d   \* padStart(width, '0')

\* new Date(ms): the UTC calendar fields of an epoch time in milliseconds
DateFromMs(ms) ==
  LET days == ms \div 86400000
      rem == ms % 86400000
      z == days + 719468
      era == z \div 146097
      doe == z - era * 146097
      yoe == (doe - doe \div 1460 + doe \div 36524 - doe \div 146096) \div 365
      doy == doe - (365 * yoe + yoe \div 4 - yoe \div 100)
      mp == (5 * doy + 2) \div 153
      m == IF mp < 10 THEN mp + 3 ELSE mp - 9
  IN [year |-> yoe + era * 400 + (IF m <= 2 THEN 1 ELSE 0),
      month |-> m,                       \* getUTCMonth() + 1
      day |-> doy - (153 * mp + 2) \div 5 + 1,
      hours |-> rem \div 3600000,
      minutes |-> (rem % 3600000) \div 60000,
      seconds |-> (rem % 60000) \div 1000,
      ms |-> rem % 1000]

\* date.setUTCMinutes(minutes, 0, 0), for minutes in 0..59
setUTCMinutes(date, minutes) ==
  [date EXCEPT !.minutes = minutes, !.seconds = 0, !.ms = 0]

\* date.toISOString()
toISOString(date) ==
  Pad(date.year, 4) \o "-" \o Pad(date.month, 2) \o "-" \o Pad(date.day, 2)
    \o "T" \o Pad(date.hours, 2) \o ":" \o Pad(date.minutes, 2) \o ":"
    \o Pad(date.seconds, 2) \o "." \o Pad(date.ms, 3) \o "Z"

IsDigit(c) == c \in {"0", "1", "2", "3", "4", "5", "6", "7", "8", "9"}

\* s.replace(/\.\d{3}Z$/, 'Z')
StripMillis(s) ==
  LET n == Len(s)
  IN IF n >= 5 /\ CharAt(s, n) = "Z" /\ CharAt(s, n - 4) = "."
        /\ \A i \in (n - 3)..(n - 1) : IsDigit(CharAt(s, i))
     THEN SubSeq(s, 1, n - 5) \o "Z"
     ELSE s

(***************************************************************************)
(* Client: timestamp resolvers                                             *)
(***************************************************************************)
\* a bug that would round to the nearest 10 minutes instead of down
GibsMinutesRounded(date) == ((date.minutes + 5) \div 10) * 10

\* Math.floor(date.getUTCMinutes() / 10) * 10
GibsMinutes(date) == (date.minutes \div 10) * 10

\* a bug that would accept an instant exactly at the tolerance as unavailable
GibsTooFarAhead(requestedTime) == requestedTime >= now + 20 * 60 * 1000

\* requestedTime > now + 20 * 60 * 1000, with now = Date.now()
GibsUnavailable(requestedTime) == requestedTime > now + 20 * 60 * 1000

\* a bug that would format the wall clock instead of the requested instant
GibsDateOfNow(requestedTime) == DateFromMs(now)

\* const date = new Date(requestedTime)
GibsDate(requestedTime) == DateFromMs(requestedTime)

formatGibsTimestamp(unixTime) ==
  LET requestedTime == unixTime * 1000
      date == GibsDate(requestedTime)
  IN IF GibsUnavailable(requestedTime) THEN Null
     ELSE StripMillis(toISOString(setUTCMinutes(date, GibsMinutes(date))))

KboxLiveUrl ==
  "https://mesonet.agron.iastate.edu/cache/tile.py/1.0.0/ridge::BOX-N0Q-0/{z}/{x}/{y}.png"

KboxTimeUrl(iemTimestamp) ==
  "https://mesonet.agron.iastate.edu/cache/tile.py/1.0.0/ridge::BOX-N0Q-"
    \o iemTimestamp \o "/{z}/{x}/{y}.png"

\* `${year}${month}${day}${hour}${min}` of the UTC fields
IemTimestamp(date) ==
  ToString(date.year) \o Pad(date.month, 2) \o Pad(date.day, 2)
    \o Pad(date.hours, 2) \o Pad(date.minutes, 2)

Abs(x) == IF x < 0 THEN -x ELSE x

\* The KBOX tile effect's URL for a frame instant.  The source compares
\* Math.abs(Date.now() / 1000 - time) < 600 in fractional seconds; both sides
\* are scaled to milliseconds here.
kboxUrl(frameTime) ==
  LET isRecent == Abs(now - frameTime * 1000) < 600 * 1000
  IN IF isRecent THEN KboxLiveUrl
     ELSE KboxTimeUrl(IemTimestamp(DateFromMs(frameTime * 1000)))

\* Inputs: clock readings from 23:30:00.000 UTC, frame instants from 23:50:00
\* UTC on the same day in steps of 2.5 minutes (across midnight)
NowBase == (23 * 60 + 30) * 60 * 1000
NowStep == 150 * 1000 + 500
TimeBase == (23 * 60 + 50) * 60
TimeStep == 2 * 60 + 30
Instants == {TimeBase + k * TimeStep : k \in 0..MaxTimeSteps}

Call(fn, t, result) == [fn |-> fn, t |-> t, at |-> now, result |-> result]

\* the wall clock advances
Tick ==
  /\ now < NowBase + MaxNowSteps * NowStep
  /\ now' = now + NowStep
  /\ UNCHANGED <<prevCall, curCall>>
  /\ UNCHANGED <<proxyVars, clientVars>>

\* a GOES tile effect or preload resolves a frame instant
ResolveGibs(t) ==
  /\ prevCall' = curCall
  /\ curCall' = Call("gibs", t, formatGibsTimestamp(t))
  /\ UNCHANGED now
  /\ UNCHANGED <<proxyVars, clientVars>>

\* the KBOX tile effect builds its tile URL for a frame instant
ResolveKbox(t) ==
  /\ prevCall' = curCall
  /\ curCall' = Call("kbox", t, kboxUrl(t))
  /\ UNCHANGED now
  /\ UNCHANGED <<proxyVars, clientVars>>

ProxyIdle ==
  /\ env = Undefined
  /\ cache = <<>>
  /\ pendingPuts = {}
  /\ inflight = [r \in 1..MaxInFlight |-> Idle]
  /\ last = NoResponse
  /\ served = 0
  /\ okFetched = {}
  /\ errSinceOk = {}
  /\ freshMiss = <<>>

InitResolve ==
  /\ now = NowBase
  /\ prevCall = NoCall
  /\ curCall = NoCall
  /\ ProxyIdle
  /\ ClientIdle

NextResolve ==
  \/ Tick
  \/ \E t \in Instants \cup {now \div 1000 + 2 * 3600} : ResolveGibs(t)
  \/ \E t \in Instants : ResolveKbox(t)

SpecResolve == InitResolve /\ [][NextResolve]_vars

(***************************************************************************)
(* Timestamp resolvers: properties                                         *)
(***************************************************************************)
GibsCall(c) == c.fn = "gibs"
KboxCall(c) == c.fn = "kbox"
\* the call resolved to a time-specific result (not unavailable, not "latest")
TimeSpecific(c) == c.result # Null /\ c.result # KboxLiveUrl
\* the lower boundary of the n-minute UTC bucket of instant t (seconds)
BucketStart(t, n) == t - (t % (n * 60))
IsoOf(t) == StripMillis(toISOString(DateFromMs(t * 1000)))
\* "YYYY-MM-DDTHH:MM:SSZ"
IsIsoInstant(s) ==
  Len(s) = 20 /\ CharAt(s, 11) = "T" /\ CharAt(s, 20) = "Z"
    /\ \A i \in {1, 2, 3, 4, 6, 7, 9, 10, 12, 13, 15, 16, 18, 19} : IsDigit(CharAt(s, i))

\* C7: formatGibsTimestamp returns null exactly when the instant is more than
\* 20 minutes later than the wall clock of the call, and a formatted timestamp
\* otherwise; an instant of now + 2h is unavailable.
C7_UnavailableIffBeyondTolerance ==
  GibsCall(curCall) =>
    /\ curCall.result = Null <=> curCall.t * 1000 - curCall.at > 20 * 60 * 1000
    /\ curCall.result # Null => IsIsoInstant(curCall.result)
    /\ curCall.t = curCall.at \div 1000 + 2 * 3600 => curCall.result = Null

\* an instant two hours ahead of the clock was resolved to unavailable, after an
\* instant exactly at the tolerance was resolved to a timestamp
C7_Witness ==
  /\ GibsCall(prevCall) /\ prevCall.t * 1000 - prevCall.at = 20 * 60 * 1000
  /\ prevCall.result # Null
  /\ GibsCall(curCall) /\ curCall.t = curCall.at \div 1000 + 2 * 3600
  /\ curCall.result = Null

\* C8 (as stated): two instants of the same 10-minute UTC bucket, resolved at
\* the same moment, resolve to the same upstream timestamp, the bucket's lower
\* boundary.
C8_SameBucketSameTimestamp ==
  GibsCall(prevCall) /\ GibsCall(curCall) /\ prevCall.at = curCall.at
      /\ BucketStart(prevCall.t, 10) = BucketStart(curCall.t, 10)
    => /\ prevCall.result = curCall.result
       /\ curCall.result # Null => curCall.result = IsoOf(BucketStart(curCall.t, 10))

\* C8 (amended): two instants of the same 10-minute UTC bucket that both resolve
\* to a timestamp resolve to the same one, the bucket's lower boundary: minute a
\* multiple of 10, seconds zero, not later than either instant.
C8_SameBucketWhenAvailable ==
  GibsCall(prevCall) /\ GibsCall(curCall)
      /\ BucketStart(prevCall.t, 10) = BucketStart(curCall.t, 10)
      /\ prevCall.result # Null /\ curCall.result # Null
    => /\ prevCall.result = curCall.result
       /\ curCall.result = IsoOf(BucketStart(curCall.t, 10))
       /\ SubSeq(curCall.result, 16, 19) = "0:00"
       /\ BucketStart(curCall.t, 10) <= curCall.t
       /\ BucketStart(curCall.t, 10) <= prevCall.t

\* two different instants of one bucket, both resolved to a timestamp
C8_Witness ==
  /\ GibsCall(prevCall) /\ GibsCall(curCall)
  /\ prevCall.t # curCall.t
  /\ BucketStart(prevCall.t, 10) = BucketStart(curCall.t, 10)
  /\ prevCall.result # Null /\ curCall.result # Null

\* C9 (as stated): two calls with the same (provider, T), made at any two
\* moments, return identical results.
C9_SameInputSameResult ==
  prevCall.fn = curCall.fn /\ prevCall.fn # "none" /\ prevCall.t = curCall.t
    => prevCall.result = curCall.result

\* C9 (amended): the result depends on the wall clock only through the
\* availability verdict: two calls with the same (provider, T) return identical
\* results unless one of them was answered unavailable (GIBS, instant more than
\* 20 minutes ahead of the clock) or with the live URL (IEM, instant within 10
\* minutes of the clock) at the moment it was made.
C9_SameTimestampWhenResolved ==
  prevCall.fn = curCall.fn /\ prevCall.fn # "none" /\ prevCall.t = curCall.t
      /\ TimeSpecific(prevCall) /\ TimeSpecific(curCall)
    => prevCall.result = curCall.result

\* the same instant resolved at two different moments, both time-specific
C9_Witness ==
  /\ prevCall.fn = curCall.fn /\ prevCall.fn # "none" /\ prevCall.t = curCall.t
  /\ prevCall.at # curCall.at
  /\ TimeSpecific(prevCall) /\ TimeSpecific(curCall)

\* C10: every time-specific KBOX tile URL carries the YYYYMMDDHHmm stamp of the
\* frame instant quantized down to 5 minutes (so its minute field is a multiple
\* of 5 and instants of one 5-minute bucket share a URL).
C10_KboxQuantized ==
  KboxCall(curCall) /\ TimeSpecific(curCall)
    => curCall.result
         = KboxTimeUrl(IemTimestamp(DateFromMs(BucketStart(curCall.t, 5) * 1000)))

\* the latency tolerance: an instant further ahead of the clock than this is
\* not yet published (formatGibsTimestamp's 20 minutes; the KBOX effect has
\* no such check of its own)
LatencyToleranceMs == 20 * 60 * 1000

\* C26: no resolver builds a time-specific tile URL or timestamp for an
\* instant further in the future than the latency tolerance: such a frame is
\* resolved to the latest-available URL or skipped, for GIBS and IEM KBOX
\* alike.
C26_NoFutureTimeSpecific ==
  curCall.fn # "none" /\ TimeSpecific(curCall) =>
    curCall.t * 1000 - curCall.at <= LatencyToleranceMs

(***************************************************************************)
(* Client: MapView tile prefetch                                           *)
(*                                                                         *)
(*   SpecPrefetch  the RainViewer and GOES-East preload effects and the    *)
(*                 preloadTileUrls jobs they start, under map movement,    *)
(*                 layer toggles, timeline refreshes and a wall clock      *)
(***************************************************************************)
MaxPast == 4          \* past frames of the longest timeline offered
MaxClockSteps == 3    \* clock advances during a run
MaxJobs == 1          \* preloadTileUrls invocations where both layers preload

Min(a, b) == IF a < b THEN a ELSE b
Max(a, b) == IF a > b THEN a ELSE b

\* Array.prototype.slice(0, k)
slice(xs, k) == SubSeq(xs, 1, Min(k, Len(xs)))

\* (1 - ln(tan(lat) + 1 / cos(lat)) / PI) / 2 in millionths, rounded down,
\* tabulated for the latitudes of the views below; outside the Mercator
\* square (|lat| > 85.05) the value leaves 0..1
MercatorMicro(lat) ==
  CASE lat = 89 -> -254610
    [] lat = 60 -> 290399
    [] lat = 55 -> 316297
    [] lat = 43 -> 367449
    [] lat = 42 -> 371217
    [] lat = 27 -> 422059
    [] lat = -60 -> 709600
    [] lat = -89 -> 1254609

\* Math.max(0, Math.min(v, n - 1))
Clamp(v, n) == Max(0, Min(v, n - 1))

\* getTileCoords(bounds, zoom): column-major over the covered columns and
\* rows, each coordinate clamped to the grid of zoom level Math.floor(zoom)
getTileCoords(bounds, zoom10) ==
  LET z == zoom10 \div 10
      n == 2 ^ z
      minX == ((bounds.west + 180) * n) \div 360
      maxX == ((bounds.east + 180) * n) \div 360
      minY == (MercatorMicro(bounds.north) * n) \div 1000000
      maxY == (MercatorMicro(bounds.south) * n) \div 1000000
      rows == maxY - minY + 1
  IN IF maxX < minX \/ maxY < minY THEN <<>>
     ELSE [i \in 1..((maxX - minX + 1) * rows) |->
             [x |-> Clamp(minX + ((i - 1) \div rows), n),
              y |-> Clamp(minY + ((i - 1) % rows), n),
              z |-> z]]

\* a bug that would request tiles at the map's own zoom level
PreloadZoomOfMap(zoom10) == zoom10 \div 10

\* Math.min(7, Math.floor(currentZoom))
PreloadZoom(zoom10) == Min(7, zoom10 \div 10)

RadarTileLimit == 15
GoesTileLimit == 10

\* limitedTiles of a preload effect
limitedTiles(shown, limit) ==
  slice(getTileCoords(shown, PreloadZoom(shown.zoom10) * 10), limit)

\* one tile URL, as the fields that vary in it
TileUrl(provider, frame, tile) ==
  [provider |-> provider, frame |-> frame,
   x |-> tile.x, y |-> tile.y, z |-> tile.z]

\* for (const frame of frames) for (const tile of tiles) push(url)
UrlsOf(provider, timeline, tiles) ==
  [i \in 1..(Len(timeline) * Len(tiles)) |->
     TileUrl(provider, timeline[((i - 1) \div Len(tiles)) + 1],
             tiles[((i - 1) % Len(tiles)) + 1])]

\* tilesToPreload of the radar preload effect
RadarUrls(timeline, shown) ==
  UrlsOf("rainviewer", timeline, limitedTiles(shown, RadarTileLimit))

\* tilesToPreload of the GOES-East preload effect: frames whose GIBS
\* timestamp is null are skipped
GoesUrls(timeline, shown) ==
  UrlsOf("goes-east",
         SelectSeq(timeline, LAMBDA f : formatGibsTimestamp(f) # Null),
         limitedTiles(shown, GoesTileLimit))

\* Math.round((loaded / total) * 100)
Percent(loaded, total) == (200 * loaded + total) \div (2 * total)

\* the part of MapView's state the preload effects and their callbacks write
MapState ==
  [jobs |-> jobs, dispatched |-> dispatched,
   hasPreloadedRef |-> hasPreloadedRef, isPreloading |-> isPreloading,
   preloadProgress |-> preloadProgress]

Commit(st) ==
  /\ jobs' = st.jobs
  /\ dispatched' = st.dispatched
  /\ hasPreloadedRef' = st.hasPreloadedRef
  /\ isPreloading' = st.isPreloading
  /\ preloadProgress' = st.preloadProgress

\* .then(() => { setIsPreloading(false); setPreloadProgress(100); }), which
\* only the radar preload effect attaches
ThenComplete(st, provider) ==
  IF provider = "rainviewer"
  THEN [st EXCEPT !.isPreloading = FALSE, !.preloadProgress = 100]
  ELSE st

\* resolve() of job j: the first call settles the promise and runs its
\* continuation, later calls do nothing
Resolve(st, j) ==
  IF st.jobs[j].resolved THEN st
  ELSE ThenComplete([st EXCEPT !.jobs[j].resolved = TRUE],
                    st.jobs[j].provider)

\* preloadTileUrls(urls, onProgress): an empty list resolves at once;
\* otherwise every image is created and given its src in one pass, and the
\* 30 s fallback timer is armed
preloadTileUrls(st, provider, timeline, shown, urls) ==
  LET j == Len(st.jobs) + 1
      job == [provider |-> provider, frames |-> timeline, view |-> shown,
              total |-> Len(urls), loaded |-> 0,
              resolved |-> FALSE, timer |-> Len(urls) # 0,
              startedAt |-> now]
      sent == [i \in 1..Len(urls) |->
                 [url |-> urls[i], job |-> j, at |-> now]]
      started == [st EXCEPT !.jobs = Append(st.jobs, job),
                            !.dispatched = st.dispatched \o sent]
  IN IF Len(urls) = 0 THEN Resolve(started, j) ELSE started

\* a bug that would start a preload although the timeline is empty
RadarPreloadSkippedLax(ml, timeline, show, done) == ~ml \/ ~show \/ done

\* if (!map || !mapLoaded || radarFrames.length === 0 || !showRadar ||
\*     hasPreloadedRef.current) return
RadarPreloadSkipped(ml, timeline, show, done) ==
  ~ml \/ Len(timeline) = 0 \/ ~show \/ done

\* the radar preload effect, run with the values of the render it follows
RadarPreloadEffect(st, ml, timeline, show) ==
  IF RadarPreloadSkipped(ml, timeline, show, st.hasPreloadedRef) THEN st
  ELSE preloadTileUrls(
         [st EXCEPT !.isPreloading = TRUE, !.hasPreloadedRef = TRUE],
         "rainviewer", timeline, viewport, RadarUrls(timeline, viewport))

\* the GOES-East preload effect
GoesEastPreloadEffect(st, ml, timeline, show) ==
  IF ~ml \/ Len(timeline) = 0 \/ ~show THEN st
  ELSE preloadTileUrls(st, "goes-east", timeline, viewport,
                       GoesUrls(timeline, viewport))

\* the effects a render runs, in the order the component declares them
Effects(ml, timeline, radar, goes, radarDeps, goesDeps) ==
  LET st1 == IF radarDeps
             THEN RadarPreloadEffect(MapState, ml, timeline, radar)
             ELSE MapState
  IN IF goesDeps THEN GoesEastPreloadEffect(st1, ml, timeline, goes) ELSE st1

\* radarFrames[currentFrameIndex] is an element of the array
HasFrame(timeline, idx) == 0 <= idx /\ idx < Len(timeline)

LastTwo(xs) == IF Len(xs) > 2 THEN SubSeq(xs, Len(xs) - 1, Len(xs)) ELSE xs

\* the part of the map the radar layer effect writes
LayerState == [radarLayer |-> radarLayer, tileUpdates |-> tileUpdates]

\* "Add/update radar layer when frames change": setTiles on the source if
\* it exists, otherwise addSource and addLayer (without a layout, so the
\* layer starts visible).  The history keeps the tile sets that a move of
\* the slider has caused (scrub).
RadarLayerEffect(st, ml, timeline, idx, scrub) ==
  IF ~ml \/ Len(timeline) = 0 \/ ~HasFrame(timeline, idx) THEN st
  ELSE [radarLayer |-> IF st.radarLayer = "absent" THEN "visible"
                       ELSE st.radarLayer,
        tileUpdates |-> IF scrub
                        THEN LastTwo(Append(st.tileUpdates,
                               [index |-> idx, at |-> now]))
                        ELSE st.tileUpdates]

CommitLayer(st) ==
  /\ radarLayer' = st.radarLayer
  /\ tileUpdates' = st.tileUpdates

\* a bug that would leave the old interval running when playback stops
AnimationEffectLeaky(old, playing, length) ==
  IF ~playing \/ length = 0 THEN old ELSE <<length>>

\* the animation effect of MapView, deps [isPlaying, radarFrames.length]:
\* the cleanup clears the interval of the previous run, and the body sets a
\* new one whose callback closes over radarFrames.length
AnimationEffect(old, playing, length) ==
  IF ~playing \/ length = 0 THEN <<>> ELSE <<length>>

othersIdle ==
  UNCHANGED <<proxyVars, prevCall, curCall, loopVars, view, animVars>>

\* map.on('load'): setMapLoaded(true)
MapLoad ==
  /\ ~mapLoaded
  /\ mapLoaded' = TRUE
  /\ CommitLayer(RadarLayerEffect(LayerState, TRUE, radarFrames,
                                  currentFrameIndex, FALSE))
  /\ UNCHANGED <<mapIsPlaying, currentFrameIndex, interval, ticked,
                 scrubbedTo>>
  /\ Commit(Effects(TRUE, radarFrames, showRadar, showGoesGeocolor,
                    TRUE, TRUE))
  /\ UNCHANGED <<viewport, radarFrames, showRadar, showGoesGeocolor, now>>
  /\ othersIdle

\* the user pans or zooms the map
MoveMap(shown) ==
  /\ shown # viewport
  /\ viewport' = shown
  /\ UNCHANGED <<mapLoaded, radarFrames, showRadar, showGoesGeocolor,
                 hasPreloadedRef, isPreloading, preloadProgress, jobs,
                 dispatched, now>>
  /\ UNCHANGED playVars
  /\ othersIdle

\* fetchRadarFrames succeeds, at mount or from its 5-minute interval:
\* setRadarFrames([...past, ...nowcast]) and
\* setCurrentFrameIndex(past.length - 1)
FetchRadarFrames(past, nowcast) ==
  /\ radarFrames' = past \o nowcast
  /\ currentFrameIndex' = Len(past) - 1
  /\ CommitLayer(RadarLayerEffect(LayerState, mapLoaded, past \o nowcast,
                                  Len(past) - 1, FALSE))
  /\ interval' = IF Len(past \o nowcast) = Len(radarFrames) THEN interval
                 ELSE AnimationEffect(interval, mapIsPlaying,
                                      Len(past \o nowcast))
  /\ UNCHANGED <<mapIsPlaying, ticked, scrubbedTo>>
  /\ Commit(Effects(mapLoaded, past \o nowcast, showRadar, showGoesGeocolor,
                    TRUE, TRUE))
  /\ UNCHANGED <<mapLoaded, viewport, showRadar, showGoesGeocolor, now>>
  /\ othersIdle

\* toggleRadar: the flag is flipped, and the layer's visibility is set if
\* the layer exists
ToggleRadar ==
  /\ showRadar' = ~showRadar
  /\ radarLayer' = IF radarLayer = "absent" THEN "absent"
                   ELSE IF ~showRadar THEN "visible" ELSE "none"
  /\ UNCHANGED <<mapIsPlaying, currentFrameIndex, interval, ticked,
                 tileUpdates, scrubbedTo>>
  /\ Commit(Effects(mapLoaded, radarFrames, ~showRadar, showGoesGeocolor,
                    TRUE, FALSE))
  /\ UNCHANGED <<mapLoaded, viewport, radarFrames, showGoesGeocolor, now>>
  /\ othersIdle

\* toggleGoesGeocolor
ToggleGoesGeocolor ==
  /\ showGoesGeocolor' = ~showGoesGeocolor
  /\ Commit(Effects(mapLoaded, radarFrames, showRadar, ~showGoesGeocolor,
                    FALSE, TRUE))
  /\ UNCHANGED <<mapLoaded, viewport, radarFrames, showRadar, now>>
  /\ UNCHANGED playVars
  /\ othersIdle

\* img.onload = img.onerror of one image of job j
ImageSettle(j, outcome) ==
  /\ jobs[j].loaded < jobs[j].total
  /\ LET loaded == jobs[j].loaded + 1
         counted == [MapState EXCEPT !.jobs[j].loaded = loaded]
         reported == IF jobs[j].provider = "rainviewer"
                     THEN [counted EXCEPT !.preloadProgress =
                             Percent(loaded, jobs[j].total)]
                     ELSE counted
     IN Commit(IF loaded >= jobs[j].total THEN Resolve(reported, j)
               ELSE reported)
  /\ UNCHANGED <<mapLoaded, viewport, radarFrames, showRadar,
                 showGoesGeocolor, now>>
  /\ UNCHANGED playVars
  /\ othersIdle

PreloadTimeoutMs == 30000

\* setTimeout(() => resolve(), 30000) of job j fires
PreloadTimeout(j) ==
  /\ jobs[j].timer
  /\ now >= jobs[j].startedAt + PreloadTimeoutMs
  /\ Commit(Resolve([MapState EXCEPT !.jobs[j].timer = FALSE], j))
  /\ UNCHANGED <<mapLoaded, viewport, radarFrames, showRadar,
                 showGoesGeocolor, now>>
  /\ UNCHANGED playVars
  /\ othersIdle

ClockStep == 15 * 1000

\* the wall clock advances
ClockTick ==
  /\ now < NowBase + MaxClockSteps * ClockStep
  /\ now' = now + ClockStep
  /\ UNCHANGED <<mapVars, playVars>>
  /\ othersIdle

prefetchIdle ==
  UNCHANGED <<mapLoaded, viewport, radarFrames, showRadar, showGoesGeocolor,
              hasPreloadedRef, isPreloading, preloadProgress, jobs,
              dispatched, now>>

\* the play button, disabled while the timeline is empty:
\* setIsPlaying(p => !p), then the animation effect
TogglePlay ==
  /\ Len(radarFrames) > 0
  /\ mapIsPlaying' = ~mapIsPlaying
  /\ interval' = AnimationEffect(interval, ~mapIsPlaying, Len(radarFrames))
  /\ UNCHANGED <<currentFrameIndex, ticked, radarLayer, tileUpdates,
                 scrubbedTo>>
  /\ prefetchIdle
  /\ othersIdle

\* the interval's callback:
\* setCurrentFrameIndex(prev => (prev + 1) % radarFrames.length), with the
\* length of the render that set the interval; then the radar layer effect
\* if the index has changed
IntervalTick ==
  /\ interval # <<>>
  /\ LET next == (currentFrameIndex + 1) % interval[1]
     IN /\ currentFrameIndex' = next
        /\ CommitLayer(IF next = currentFrameIndex THEN LayerState
                       ELSE RadarLayerEffect(LayerState, mapLoaded,
                                             radarFrames, next, FALSE))
        /\ scrubbedTo' = IF scrubbedTo = <<>> THEN <<>>
                         ELSE <<(scrubbedTo[1] + 1) % interval[1]>>
  /\ ticked' = ~ticked
  /\ UNCHANGED <<mapIsPlaying, interval>>
  /\ prefetchIdle
  /\ othersIdle

\* the time slider, rendered while the timeline is not empty, with min 0 and
\* max radarFrames.length - 1: setCurrentFrameIndex(Number(e.target.value)),
\* then the radar layer effect
SliderSet(k) ==
  /\ Len(radarFrames) > 0
  /\ k \in 0..(Len(radarFrames) - 1)
  /\ k # currentFrameIndex
  /\ currentFrameIndex' = k
  /\ CommitLayer(RadarLayerEffect(LayerState, mapLoaded, radarFrames, k,
                                  TRUE))
  /\ scrubbedTo' = <<k>>
  /\ UNCHANGED <<mapIsPlaying, interval, ticked>>
  /\ prefetchIdle
  /\ othersIdle

\* Inputs: four views (the initial one, a close-up at zoom 9.6, a view past
\* the north pole and the western edge of the world at zoom 0.5, a view
\* past the antimeridian and the south pole at zoom 2.3) and timelines of
\* 10-minute frames, three of them nowcast
ZoomedView ==
  [west |-> -72, east |-> -70, north |-> 43, south |-> 42, zoom10 |-> 96]
PolarView ==
  [west |-> -200, east |-> -100, north |-> 89, south |-> 60, zoom10 |-> 5]
DatelineView ==
  [west |-> 200, east |-> 260, north |-> -60, south |-> -89, zoom10 |-> 23]
Views == {InitialView, ZoomedView, PolarView, DatelineView}

FrameStep == 10 * 60
Nowcast == 3
Timeline(latest, past) ==
  [i \in 1..(past + Nowcast) |-> latest + (i - past) * FrameStep]
\* data.radar.past and data.radar.nowcast of such a timeline
PastOf(latest, past) == SubSeq(Timeline(latest, past), 1, past)
NowcastOf(latest, past) ==
  SubSeq(Timeline(latest, past), past + 1, past + Nowcast)
LatestPast == NowBase \div 1000 - 5 * 60
Timelines == {Timeline(LatestPast, 1), Timeline(LatestPast, MaxPast)}

PrefetchInit(shown) ==
  /\ ProxyIdle
  /\ now = NowBase
  /\ prevCall = NoCall
  /\ curCall = NoCall
  /\ view = "map"
  /\ MapAt(shown)
  /\ LoopRendered

\* the steps common to the prefetch specifications
PrefetchStep(views) ==
  \/ MapLoad
  \/ \E shown \in views : MoveMap(shown)
  \/ \E j \in 1..Len(jobs), outcome \in {"load", "error"} :
        ImageSettle(j, outcome)
  \/ \E j \in 1..Len(jobs) : PreloadTimeout(j)
  \/ ClockTick

InitPrefetch == PrefetchInit(InitialView)

NextPrefetch ==
  \/ PrefetchStep(Views)
  \/ \E past \in {1, MaxPast} :
        FetchRadarFrames(PastOf(LatestPast, past), NowcastOf(LatestPast, past))
  \/ ToggleRadar

SpecPrefetch == InitPrefetch /\ [][NextPrefetch]_vars

\* Both preload effects, after the user has zoomed in, over the short
\* timeline and the views of few tiles
InitLayers == PrefetchInit(ZoomedView)

NextLayers ==
  \/ PrefetchStep(Views \ {InitialView})
  \/ Len(jobs) < MaxJobs
       /\ FetchRadarFrames(PastOf(LatestPast, 1), NowcastOf(LatestPast, 1))
  \/ Len(jobs) < MaxJobs /\ ToggleRadar
  \/ Len(jobs) < MaxJobs /\ ToggleGoesGeocolor

SpecLayers == InitLayers /\ [][NextLayers]_vars

\* The timeline and its playback: refreshes whose response has one or all
\* past frames, no past frame, or no frame at all
Responses ==
  {<<PastOf(LatestPast, past), NowcastOf(LatestPast, past)>> :
     past \in {0, 1, MaxPast}}
    \cup {<<PastOf(LatestPast, 2), <<>>>>, <<<<>>, <<>>>>}

InitScrub == PrefetchInit(InitialView)

NextScrub ==
  \/ MapLoad
  \/ \E r \in Responses : FetchRadarFrames(r[1], r[2])
  \/ TogglePlay
  \/ IntervalTick
  \/ \E k \in 0..(MaxPast + Nowcast - 1) : SliderSet(k)

SpecScrub == InitScrub /\ [][NextScrub]_vars

(***************************************************************************)
(* Tile prefetch: properties                                               *)
(***************************************************************************)
ProviderMaxZoom == 7

RadarJob(j) == jobs[j].provider = "rainviewer"
RequestsOf(j) == SelectSeq(dispatched, LAMBDA r : r.job = j)

\* C11: every tile request a preload effect dispatches, for RainViewer or
\* for GIBS GOES, has a zoom level of at most 7 and a column and a row
\* inside the grid of that level, whatever the bounds and zoom of the map
C11_TileInGrid ==
  \A i \in 1..Len(dispatched) :
     LET u == dispatched[i].url
     IN /\ u.z <= ProviderMaxZoom
        /\ 0 <= u.x /\ u.x < 2 ^ u.z
        /\ 0 <= u.y /\ u.y < 2 ^ u.z

\* RainViewer requests were dispatched from a view zoomed in beyond the
\* provider's maximum
C11_Witness ==
  \E i \in 1..Len(dispatched) :
     /\ dispatched[i].url.provider = "rainviewer"
     /\ jobs[dispatched[i].job].view.zoom10 \div 10 > ProviderMaxZoom

NewestFrame(timeline) == timeline[Len(timeline)]

\* C12: the first tile requests a prefetch job dispatches belong to the most
\* recent frame of its timeline, and the other frames follow from most
\* recent to oldest
C12_NewestFirst ==
  \A j \in 1..Len(jobs) :
     LET rs == RequestsOf(j)
     IN Len(rs) > 0 =>
          /\ rs[1].url.frame = NewestFrame(jobs[j].frames)
          /\ \A i \in 1..(Len(rs) - 1) : rs[i].url.frame >= rs[i + 1].url.frame

RateBudget == 100
RateWindowMs == 60 * 1000

\* C13: no 60-second window holds more than the provider's budget (RainViewer:
\* 100) of dispatched tile requests, whatever the number of frames and tiles
C13_RateBudget ==
  \A i \in 1..Len(dispatched) :
     Cardinality({k \in 1..Len(dispatched) :
                    /\ dispatched[k].url.provider = dispatched[i].url.provider
                    /\ dispatched[k].at >= dispatched[i].at
                    /\ dispatched[k].at < dispatched[i].at + RateWindowMs})
       <= RateBudget

BatchSize == 10
Unsettled(j) == jobs[j].total - jobs[j].loaded

\* C14: at most one batch of a job's requests is in flight: the number of
\* unsettled requests of a job never exceeds the batch size
C14_OneBatchInFlight == \A j \in 1..Len(jobs) : Unsettled(j) <= BatchSize

\* C15: a job's completion is signalled only after every request of the job
\* has settled: no per-job timeout completes it while requests are unsettled
C15_CompleteWhenSettled ==
  \A j \in 1..Len(jobs) : jobs[j].resolved => Unsettled(j) = 0

\* C16: whichever tiles fail, a job that completes has counted every one of
\* its frames x tiles requests, one per settled tile
C16_CompletedCountsAll ==
  \A j \in 1..Len(jobs) :
     RadarJob(j) /\ jobs[j].resolved =>
        jobs[j].loaded =
          Len(jobs[j].frames) * Len(limitedTiles(jobs[j].view, RadarTileLimit))

\* C17: every report of a job raises the displayed progress, completion shows
\* 100%, and once 100% is shown no later callback lowers it
C17_ProgressIncreases ==
  [][\A j \in 1..Len(jobs) :
       RadarJob(j) =>
         /\ jobs'[j].loaded > jobs[j].loaded =>
              preloadProgress' > preloadProgress
         /\ jobs'[j].resolved /\ ~jobs[j].resolved => preloadProgress' = 100
         /\ jobs[j].resolved /\ preloadProgress = 100 =>
              preloadProgress' = 100]_vars

\* a render with the radar layer on, the map loaded and an empty timeline
RequestedWithNoFrames ==
  /\ mapLoaded' /\ showRadar' /\ Len(radarFrames') = 0
  /\ <<mapLoaded, showRadar, radarFrames>>' # <<mapLoaded, showRadar, radarFrames>>

\* C18 (as claimed): a prefetch requested with zero frames completes at once,
\* dispatches nothing and reports 100% progress
C18_NoFramesFullProgress ==
  [][RequestedWithNoFrames =>
       /\ dispatched' = dispatched
       /\ ~isPreloading'
       /\ preloadProgress' = 100]_vars

\* C18 (amended): a prefetch requested with zero frames starts no job: it
\* dispatches nothing and leaves the loading flag and the progress as they
\* were
C18_NoFramesNoJob ==
  [][RequestedWithNoFrames =>
       UNCHANGED <<jobs, dispatched, isPreloading, preloadProgress,
                   hasPreloadedRef>>]_vars

\* the radar layer is on over a loaded map whose timeline is still empty
C18_Witness ==
  /\ mapLoaded /\ showRadar /\ Len(radarFrames) = 0
  /\ ~isPreloading /\ preloadProgress = 0 /\ Len(dispatched) = 0

\* the target of the radar prefetch changes while the layer stays or comes on
TargetChanged ==
  /\ Len(jobs) > 0
  /\ mapLoaded' /\ showRadar' /\ Len(radarFrames') > 0
  /\ viewport' # viewport \/ radarFrames' # radarFrames \/ ~showRadar

\* C19: when the viewport, the active layer or the timeline changes after a
\* prefetch job was started, a new job is started for the new frames x tiles
C19_NewJobOnChange ==
  [][TargetChanged =>
       /\ Len(jobs') = Len(jobs) + 1
       /\ jobs'[Len(jobs')].frames = radarFrames'
       /\ jobs'[Len(jobs')].view = viewport']_vars

(***************************************************************************)
(* Client: useWeatherLoop                                                  *)
(*                                                                         *)
(*   SpecLoop  loadFrames invocations that interleave at their await       *)
(*             points, started by the initial-load effect (run twice under *)
(*             StrictMode in a development build) and by the controls the  *)
(*             WeatherLoop component enables                               *)
(***************************************************************************)
MaxLoads == 3     \* loadFrames invocations during a run
MaxImages == 2    \* image URLs the directory listing yields

restIdle == UNCHANGED <<proxyVars, resolveVars, mapVars, view, playVars>>

\* the part of the hook's state loadFrames and the controls write
LoopState ==
  [frames |-> frames, currentFrame |-> currentFrame, isLoading |-> isLoading,
   loadingProgress |-> loadingProgress, error |-> error, loads |-> loads,
   isPlaying |-> isPlaying, imageStore |-> imageStore]

\* the animation effect of useWeatherLoop, deps [isPlaying, frames.length,
\* speed]: the pending animation frame is cancelled, and while playing with
\* frames a new one is requested whose callback closes over frames.length
AnimationFrameEffect(old, playing, length) ==
  IF ~playing \/ length = 0 THEN <<>> ELSE <<length>>

\* a render with the new state, followed by the animation effect
CommitLoop(st) ==
  /\ frames' = st.frames
  /\ currentFrame' = st.currentFrame
  /\ isLoading' = st.isLoading
  /\ loadingProgress' = st.loadingProgress
  /\ error' = st.error
  /\ loads' = st.loads
  /\ isPlaying' = st.isPlaying
  /\ imageStore' = st.imageStore
  /\ animationRef' = IF st.isPlaying = isPlaying
                         /\ Len(st.frames) = Len(frames)
                      THEN animationRef
                      ELSE AnimationFrameEffect(animationRef, st.isPlaying,
                                                Len(st.frames))
  /\ UNCHANGED <<lastFrameTimeRef, rafTime>>

\* the URLs fetchAvailableImages returns, oldest first
ImageUrls(sec, type, n) ==
  [i \in 1..n |-> [sector |-> sec, imageType |-> type, ts |-> i]]

\* the object URL fetchAndCacheImage resolves to
ObjectUrl(url) == [blob |-> url]

\* ((i + 1) / imageUrls.length) * 100, kept in thousandths
LoadingPercent(done, n) == (done * 100000) \div n

\* The local image cache (lib/imageCache), after the design's contract.
\* The configured maximum age of an entry:
MaxAgeMs == 60 * 60 * 1000

EntriesFor(store, url) == {e \in store : e.url = url}

\* getOrFetch(url), up to its await: a non-expired entry for the URL is a
\* hit and causes no network activity, otherwise the URL is fetched
Lookup(store, url) ==
  LET es == EntriesFor(store, url)
      present == es # {}
      age == IF present THEN now - (CHOOSE e \in es : TRUE).storedAt ELSE 0
      hit == present /\ age <= MaxAgeMs
  IN [url |-> url, present |-> present, age |-> age, hit |-> hit,
      fetched |-> ~hit]

\* getOrFetch(url), after a successful fetch: the payload is stored under
\* the URL with the current time
Stored(store, url) ==
  (store \ EntriesFor(store, url)) \cup {[url |-> url, storedAt |-> now]}

\* purgeOlderThan(maxAgeMs): entries older than the maximum age are deleted
Purged(store) == {e \in store : now - e.storedAt <= MaxAgeMs}

\* a bug that would start looking frames up without the expiry sweep
loadFramesUnswept(st, sec, type) ==
  [st EXCEPT !.isLoading = TRUE, !.error = Null, !.loadingProgress = 0,
             !.frames = <<>>, !.currentFrame = 0,
             !.loads = Append(st.loads,
                 [sector |-> sec, imageType |-> type,
                  pc |-> "fetchAvailableImages",
                  imageUrls |-> <<>>, i |-> 0, loadedFrames |-> <<>>,
                  fetches |-> 1, swept |-> FALSE, lookup |-> <<>>])]

\* loadFrames(), up to its first await: the state is reset and
\* clearOldCache() is called
loadFrames(st, sec, type) ==
  [st EXCEPT !.isLoading = TRUE, !.error = Null, !.loadingProgress = 0,
             !.frames = <<>>, !.currentFrame = 0,
             !.loads = Append(st.loads,
                 [sector |-> sec, imageType |-> type, pc |-> "clearOldCache",
                  imageUrls |-> <<>>, i |-> 0, loadedFrames |-> <<>>,
                  fetches |-> 0, swept |-> FALSE, lookup |-> <<>>])]

\* fetchAndCacheImage(url, sector) of load k for its URL number n, up to its
\* await: the lookup, and the network fetch of a miss
fetchAndCacheImage(st, k, n) ==
  LET found == Lookup(st.imageStore, st.loads[k].imageUrls[n])
  IN [st EXCEPT !.loads[k].lookup = <<found>>,
                !.loads[k].fetches = IF found.fetched THEN @ + 1 ELSE @]

\* catch (err) { setError(...) } finally { setIsLoading(false) }
Failed(st, k, message) ==
  [st EXCEPT !.error = message, !.isLoading = FALSE, !.loads[k].pc = "done"]

\* the initial-load effect: useEffect(() => { loadFrames() }, [loadFrames]);
\* under <StrictMode> a development build runs it a second time at once
Mount(strict) ==
  /\ Len(loads) = 0
  /\ LET once == loadFrames(LoopState, sector, imageType)
     IN CommitLoop(IF strict THEN loadFrames(once, sector, imageType)
                   ELSE once)
  /\ UNCHANGED <<sector, imageType>>
  /\ restIdle

\* controls.setSector from the sector select, which is disabled while
\* isLoading; the changed loadFrames callback re-runs the effect
SetSector(newSector) ==
  /\ ~isLoading
  /\ newSector # sector
  /\ sector' = newSector
  /\ CommitLoop(loadFrames([LoopState EXCEPT !.isPlaying = FALSE],
                           newSector, imageType))
  /\ UNCHANGED imageType
  /\ restIdle

\* controls.setImageType from the type select, disabled while isLoading
SetImageType(type) ==
  /\ ~isLoading
  /\ type # imageType
  /\ imageType' = type
  /\ CommitLoop(loadFrames([LoopState EXCEPT !.isPlaying = FALSE],
                           sector, type))
  /\ UNCHANGED sector
  /\ restIdle

\* controls.refresh from the refresh button (disabled while isLoading) or
\* from the Retry button shown with an error
Refresh ==
  /\ ~isLoading \/ error # Null
  /\ CommitLoop(loadFrames(LoopState, sector, imageType))
  /\ UNCHANGED <<sector, imageType>>
  /\ restIdle

\* await clearOldCache() of load k settles; on success the load calls
\* fetchAvailableImages, which fetches the directory listing
ClearOldCacheSettle(k, ok) ==
  /\ loads[k].pc = "clearOldCache"
  /\ CommitLoop(IF ok
                THEN [LoopState EXCEPT !.loads[k].pc = "fetchAvailableImages",
                                       !.loads[k].fetches = @ + 1,
                                       !.loads[k].swept = TRUE,
                                       !.imageStore = Purged(imageStore)]
                ELSE Failed(LoopState, k, "Failed to load images"))
  /\ UNCHANGED <<sector, imageType>>
  /\ restIdle

\* await fetchAvailableImages(sector, imageType, 24) of load k resolves with
\* n URLs (it catches its own errors); none is an error, otherwise the load
\* calls fetchAndCacheImage for the first URL
ImagesListed(k, n) ==
  /\ loads[k].pc = "fetchAvailableImages"
  /\ CommitLoop(IF n = 0
                THEN Failed(LoopState, k, "No images available")
                ELSE fetchAndCacheImage([LoopState EXCEPT
                        !.loads[k].pc = "fetchAndCacheImage",
                        !.loads[k].imageUrls =
                           ImageUrls(loads[k].sector, loads[k].imageType, n),
                        !.loads[k].i = 0], k, 1))
  /\ UNCHANGED <<sector, imageType>>
  /\ restIdle

\* the end of the for loop of load k
LoopEnd(st, k) ==
  IF Len(st.loads[k].loadedFrames) = 0
  THEN Failed(st, k, "No frames could be loaded")
  ELSE [st EXCEPT !.loads[k].pc = "getCacheStats"]

\* i++ of load k: the next fetchAndCacheImage call, or the end of the loop
NextFrame(st, k) ==
  IF st.loads[k].i + 1 < Len(st.loads[k].imageUrls)
  THEN fetchAndCacheImage([st EXCEPT !.loads[k].i = @ + 1], k,
                          st.loads[k].i + 2)
  ELSE LoopEnd(st, k)

\* await fetchAndCacheImage(url, sector) of load k settles: a hit resolves,
\* a fetch resolves (and the image is stored) or fails; a loaded frame is
\* appended and shown and the progress set; a failure is only logged
FrameSettle(k, ok) ==
  /\ loads[k].pc = "fetchAndCacheImage"
  /\ loads[k].lookup[1].hit => ok
  /\ LET l == loads[k]
         loaded == Append(l.loadedFrames, ObjectUrl(l.imageUrls[l.i + 1]))
         shown == [LoopState EXCEPT
                     !.loads[k].loadedFrames = loaded,
                     !.frames = loaded,
                     !.loadingProgress =
                        LoadingPercent(l.i + 1, Len(l.imageUrls)),
                     !.imageStore =
                        IF l.lookup[1].fetched
                        THEN Stored(imageStore, l.imageUrls[l.i + 1])
                        ELSE imageStore]
     IN CommitLoop(NextFrame(IF ok THEN shown ELSE LoopState, k))
  /\ UNCHANGED <<sector, imageType>>
  /\ restIdle

\* await getCacheStats() of load k settles, then finally: setIsLoading(false)
CacheStatsSettle(k, ok) ==
  /\ loads[k].pc = "getCacheStats"
  /\ CommitLoop(IF ok
                THEN [LoopState EXCEPT !.isLoading = FALSE,
                                       !.loads[k].pc = "done"]
                ELSE Failed(LoopState, k, "Failed to load images"))
  /\ UNCHANGED <<sector, imageType>>
  /\ restIdle

\* NaN, which % yields for a zero divisor and which + and % hand on
NaN == -999999
JsAdd(a, b) == IF a = NaN \/ b = NaN THEN NaN ELSE a + b
JsMod(a, n) == IF a = NaN \/ n = 0 THEN NaN ELSE a % n

MaxAnimationFrames == 2   \* animation frame callbacks during a run
DEFAULT_SPEED == 150
FramePeriod == 3 * 25     \* the shortest time between two callbacks

\* the hook's initial-load effect has run
Mounted == Len(loads) > 0

\* controls.play: setIsPlaying(true)
play ==
  /\ Mounted
  /\ CommitLoop([LoopState EXCEPT !.isPlaying = TRUE])
  /\ UNCHANGED <<sector, imageType>>
  /\ restIdle

\* controls.pause: setIsPlaying(false)
pause ==
  /\ Mounted
  /\ CommitLoop([LoopState EXCEPT !.isPlaying = FALSE])
  /\ UNCHANGED <<sector, imageType>>
  /\ restIdle

\* controls.toggle: setIsPlaying(p => !p)
toggle ==
  /\ Mounted
  /\ CommitLoop([LoopState EXCEPT !.isPlaying = ~isPlaying])
  /\ UNCHANGED <<sector, imageType>>
  /\ restIdle

\* controls.nextFrame, from its button or from a swipe to the left on the
\* image container: setCurrentFrame(p => (p + 1) % frames.length)
nextFrame ==
  /\ Mounted
  /\ CommitLoop([LoopState EXCEPT
                   !.currentFrame = JsMod(JsAdd(currentFrame, 1), Len(frames))])
  /\ UNCHANGED <<sector, imageType>>
  /\ restIdle

\* controls.prevFrame, from its button or from a swipe to the right:
\* setCurrentFrame(p => (p - 1 + frames.length) % frames.length)
prevFrame ==
  /\ Mounted
  /\ CommitLoop([LoopState EXCEPT
                   !.currentFrame =
                      JsMod(JsAdd(JsAdd(currentFrame, -1), Len(frames)),
                            Len(frames))])
  /\ UNCHANGED <<sector, imageType>>
  /\ restIdle

\* controls.goToFrame(index):
\* setCurrentFrame(Math.max(0, Math.min(index, frames.length - 1)))
goToFrame(index) ==
  /\ Mounted
  /\ CommitLoop([LoopState EXCEPT
                   !.currentFrame = Max(0, Min(index, Len(frames) - 1))])
  /\ UNCHANGED <<sector, imageType>>
  /\ restIdle

\* animate(timestamp), the callback of the requested animation frame, dt
\* after the previous callback: the frame advances if the speed's period has
\* passed, and the callback requests the next animation frame
animate(dt) ==
  /\ animationRef # <<>>
  /\ rafTime < MaxAnimationFrames * DEFAULT_SPEED
  /\ LET timestamp == rafTime + dt
         due == timestamp - lastFrameTimeRef >= DEFAULT_SPEED
     IN /\ rafTime' = timestamp
        /\ currentFrame' =
             IF due THEN JsMod(JsAdd(currentFrame, 1), animationRef[1])
             ELSE currentFrame
        /\ lastFrameTimeRef' = IF due THEN timestamp ELSE lastFrameTimeRef
  /\ UNCHANGED <<sector, imageType, frames, isLoading, loadingProgress,
                 error, loads, isPlaying, animationRef, imageStore>>
  /\ restIdle

Sectors == {"northeast", "southeast"}
ImageTypes == {"GEOCOLOR", "Band13"}

InitLoop ==
  /\ ProxyIdle
  /\ ResolveIdle
  /\ view = "flat"
  /\ MapMounted
  /\ LoopRendered

NextLoop ==
  \/ \E strict \in BOOLEAN : Mount(strict)
  \/ \E newSector \in Sectors : Len(loads) < MaxLoads /\ SetSector(newSector)
  \/ \E type \in ImageTypes : Len(loads) < MaxLoads /\ SetImageType(type)
  \/ Len(loads) < MaxLoads /\ Refresh
  \/ \E k \in 1..Len(loads), ok \in BOOLEAN : ClearOldCacheSettle(k, ok)
  \/ \E k \in 1..Len(loads), n \in 0..MaxImages : ImagesListed(k, n)
  \/ \E k \in 1..Len(loads), ok \in BOOLEAN : FrameSettle(k, ok)
  \/ \E k \in 1..Len(loads), ok \in BOOLEAN : CacheStatsSettle(k, ok)

SpecLoop == InitLoop /\ [][NextLoop]_vars

\* The loads and the local image cache while time passes: two steps of the
\* clock take an entry past its maximum age
MaxCacheClock == 2    \* clock advances during a run

CacheClockStep == 40 * 60 * 1000

\* the wall clock advances
TimePasses ==
  /\ now < MaxCacheClock * CacheClockStep
  /\ now' = now + CacheClockStep
  /\ UNCHANGED <<proxyVars, prevCall, curCall, clientVars>>

NextCache ==
  \/ \E strict \in BOOLEAN : Mount(strict)
  \/ Len(loads) < MaxLoads /\ Refresh
  \/ \E k \in 1..Len(loads), ok \in BOOLEAN : ClearOldCacheSettle(k, ok)
  \/ \E k \in 1..Len(loads), n \in 0..MaxImages : ImagesListed(k, n)
  \/ \E k \in 1..Len(loads), ok \in BOOLEAN : FrameSettle(k, ok)
  \/ \E k \in 1..Len(loads), ok \in BOOLEAN : CacheStatsSettle(k, ok)
  \/ TimePasses

SpecCache == InitLoop /\ [][NextCache]_vars

(***************************************************************************)
(* useWeatherLoop: properties                                              *)
(***************************************************************************)
\* C20: once a load has been superseded by a newer one it issues no further
\* fetches, and its late results never overwrite the frames, the progress or
\* the loading flag of the newer load
C20_SupersededIsInert ==
  [][\A k \in 1..Len(loads) :
       k < Len(loads) /\ loads'[k] # loads[k] =>
         /\ loads'[k].fetches = loads[k].fetches
         /\ frames' = frames
         /\ loadingProgress' = loadingProgress
         /\ isLoading' = isLoading]_vars

SetView(v) ==
  /\ v # view
  /\ view' = v
  /\ mapLoaded' = FALSE
  /\ viewport' = InitialView
  /\ radarFrames' = <<>>
  /\ showRadar' = FALSE
  /\ showGoesGeocolor' = FALSE
  /\ hasPreloadedRef' = FALSE
  /\ isPreloading' = FALSE
  /\ preloadProgress' = 0
  /\ jobs' = <<>>
  /\ dispatched' = <<>>
  /\ mapIsPlaying' = FALSE
  /\ currentFrameIndex' = 0
  /\ interval' = <<>>
  /\ radarLayer' = "absent"
  /\ sector' = "northeast"
  /\ imageType' = "GEOCOLOR"
  /\ frames' = <<>>
  /\ currentFrame' = 0
  /\ isLoading' = TRUE
  /\ loadingProgress' = 0
  /\ error' = Null
  /\ loads' = <<>>
  /\ isPlaying' = FALSE
  /\ animationRef' = <<>>
  /\ lastFrameTimeRef' = 0
  /\ rafTime' = 0
  /\ UNCHANGED imageStore
  /\ ticked' = FALSE
  /\ tileUpdates' = <<>>
  /\ scrubbedTo' = <<>>
  /\ UNCHANGED <<proxyVars, resolveVars>>

InitPlayback == PrefetchInit(InitialView)

NextPlayback ==
  \/ \E v \in {"map", "flat"} : SetView(v)
  \/ view = "map" /\ MapLoad
  \/ view = "map" /\ \E r \in Responses : FetchRadarFrames(r[1], r[2])
  \/ view = "map" /\ TogglePlay
  \/ view = "map" /\ IntervalTick
  \/ view = "map" /\ \E k \in 0..(MaxPast + Nowcast - 1) : SliderSet(k)
  \/ view = "flat" /\ Mount(FALSE)
  \/ view = "flat" /\ Len(loads) < MaxLoads /\ Refresh
  \/ view = "flat" /\ \E k \in 1..Len(loads), ok \in BOOLEAN :
        ClearOldCacheSettle(k, ok)
  \/ view = "flat" /\ \E k \in 1..Len(loads), n \in 0..MaxImages :
        ImagesListed(k, n)
  \/ view = "flat" /\ \E k \in 1..Len(loads), ok \in BOOLEAN :
        FrameSettle(k, ok)
  \/ view = "flat" /\ \E k \in 1..Len(loads), ok \in BOOLEAN :
        CacheStatsSettle(k, ok)
  \/ view = "flat" /\ play
  \/ view = "flat" /\ pause
  \/ view = "flat" /\ toggle
  \/ view = "flat" /\ nextFrame
  \/ view = "flat" /\ prevFrame
  \/ view = "flat" /\ \E index \in -1..MaxImages : goToFrame(index)
  \/ view = "flat" /\ \E dt \in {FramePeriod, DEFAULT_SPEED} : animate(dt)

SpecPlayback == InitPlayback /\ [][NextPlayback]_vars

(***************************************************************************)
(* Playback: properties                                                    *)
(***************************************************************************)
\* C21: a timer tick happens only while the engine is playing with at least
\* one frame, and it sets the frame index to (index + 1) mod frameCount: the
\* interval callback of MapView and the due animation frame callback of
\* useWeatherLoop alike.  While stopped there is no tick, so none changes the
\* index.
C21_TickAdvances ==
  [][/\ view' = view /\ ticked' # ticked =>
          /\ mapIsPlaying /\ Len(radarFrames) > 0
          /\ currentFrameIndex'
               = (currentFrameIndex + 1) % Len(radarFrames)
     /\ view' = view /\ lastFrameTimeRef' # lastFrameTimeRef =>
          /\ isPlaying /\ Len(frames) > 0
          /\ currentFrame' = JsMod(JsAdd(currentFrame, 1), Len(frames))]_vars

\* the GOES loop has played two frames through and is back at the first one
C21_Witness ==
  /\ view = "flat" /\ isPlaying /\ Len(frames) = 2
  /\ lastFrameTimeRef = 2 * DEFAULT_SPEED
  /\ currentFrame = 0

SliderDebounceMs == 150

\* C22: scrubbing is debounced: slider sets made within the debounce window
\* cause one tile set on the radar source, for the last index, so two tile
\* sets caused by the slider are never closer than the window.
C22_ScrubDebounced ==
  Len(tileUpdates) = 2 =>
    tileUpdates[2].at - tileUpdates[1].at >= SliderDebounceMs

\* load k has ended after it had loaded at least one frame
LoadedSome(k) == loads[k].pc = "done" /\ Len(loads[k].loadedFrames) > 0

\* C23: once a load has succeeded, the frames shown are never empty while a
\* reload is in progress: the last rendered frame stays until the first frame
\* of the new selection has loaded.
C23_NoBlankOnReload ==
  (\E k \in 1..Len(loads) : LoadedSome(k)) => ~(isLoading /\ frames = <<>>)

\* C24: the frame index has one sequenced mutation path: after a scrub to k
\* the index is k, an autoplay tick after it gives (k + 1) mod frameCount, and
\* nothing else (such as the periodic refresh of the timeline) overwrites the
\* index the slider and autoplay have left, while that frame exists (states
\* in which the index names no frame are left aside here).
C24_OnlyScrubAndTick ==
  /\ scrubbedTo # <<>> /\ HasFrame(radarFrames, scrubbedTo[1])
  /\ HasFrame(radarFrames, currentFrameIndex)
  => currentFrameIndex = scrubbedTo[1]

\* C27: in useWeatherLoop the frame index is always an integer with
\* 0 <= currentFrame <= max(0, frames.length - 1), whatever controls are
\* called and whenever, also while the frame list is empty.
C27_FrameInRange ==
  currentFrame # NaN /\ 0 <= currentFrame
    /\ currentFrame <= Max(0, Len(frames) - 1)

\* C28: in MapView, whenever the radar timeline is non-empty the frame index
\* addresses one of its frames, 0 <= currentFrameIndex < radarFrames.length,
\* after any sequence of timeline refreshes, autoplay ticks and slider sets.
C28_IndexAddressesFrame ==
  view = "map" /\ Len(radarFrames) > 0 =>
    HasFrame(radarFrames, currentFrameIndex)

\* C29: a run of loadFrames that is not overlapped by another ends with
\* isLoading = false; the error is then set if and only if it loaded no
\* frame, and without an error the reported progress is 100.
C29_LoadEndsClean ==
  Len(loads) = 1 /\ loads[1].pc = "done" =>
    /\ ~isLoading
    /\ error # Null <=> Len(loads[1].loadedFrames) = 0
    /\ error = Null => loadingProgress = LoadingPercent(1, 1)

\* C30: in every state reached after the map has loaded, showRadar is true
\* if and only if the layer 'radar-layer' exists and is visible.
C30_FlagMatchesLayer ==
  view = "map" /\ mapLoaded => (showRadar <=> radarLayer = "visible")
====
